---- MODULE Spec2Model ----
(***************************************************************************)
(* A model of pyplate/plate.py: the PaperPlate layout engine, its two      *)
(* presets Plate96 and Plate384, and the export to_pdf_inkscape.           *)
(*                                                                         *)
(* Lengths are exact decimals held as integers, one unit = 0.001 mm        *)
(* (14.38 mm is 14380).  The inputs are chosen so that every product and   *)
(* quotient the code forms (0.75*sep, 0.55*sep, font/8, diameter/2) is a   *)
(* whole number of units; the rounding of IEEE doubles is not modelled.    *)
(*                                                                         *)
(* Python lists are objects on a heap: list_objs holds the outer lists (a  *)
(* sequence of row addresses each), row_objs the rows (a sequence of       *)
(* colour strings each).  An address is an index into the heap.  Strings   *)
(* that the code takes apart (paths, the shell command) are sequences of   *)
(* one-character strings.                                                  *)
(***************************************************************************)
EXTENDS Integers, Sequences, FiniteSets, TLC

VARIABLES
    pc,            \* position of the constructor call
    step,          \* which of the three draw calls of __init__ is next
    call,          \* the constructor call: class and arguments
    row_objs,      \* heap: the row lists
    list_objs,     \* heap: the outer lists
    self,          \* the PaperPlate object's fields
    exc,           \* the exception the constructor raised, or "none"
    fill_at_call,  \* ghost: the caller's well_fill as it was when __init__ ran
    nmut,          \* how many times the caller has mutated its matrix
    xpc,           \* position of to_pdf_inkscape
    loc,           \* locals of to_pdf_inkscape
    fs,            \* the filesystem: directories, files, what this export wrote
    env,           \* whether inkscape is on PATH / at the fallback location
    procs,         \* the os.system calls made: command words and exit status
    xexc           \* the exception to_pdf_inkscape raised, or "none"

vars == <<pc, step, call, row_objs, list_objs, self, exc, fill_at_call, nmut,
          xpc, loc, fs, env, procs, xexc>>

layoutVars == <<pc, step, call, row_objs, list_objs, self, exc, fill_at_call, nmut>>
exportVars == <<xpc, loc, fs, env, procs, xexc>>

(***************************************************************************)
(* Bounds of the model.                                                    *)
(***************************************************************************)
MaxRows == 2
MaxCols == 2
MaxMutations == 1

Palette == <<"white", "red", "blue">>
MutationColor == "black"

(***************************************************************************)
(* The caller's well_fill: a str, or a list of lists of str on the heap.   *)
(***************************************************************************)
StrFill(s) == [kind |-> "str", str |-> s, addr |-> 0]
ListFill(a) == [kind |-> "list", str |-> "", addr |-> a]

\* The matrix (a sequence of sequences of colours) the outer list at a holds.
Matrix(ro, lo, a) == [i \in 1..Len(lo[a]) |-> ro[lo[a][i]]]

\* The value of a well_fill argument: the str, or the matrix it refers to.
FillValue(ro, lo, wf) ==
    IF wf.kind = "str" THEN [kind |-> "str", str |-> wf.str, matrix |-> <<>>]
    ELSE [kind |-> "list", str |-> "", matrix |-> Matrix(ro, lo, wf.addr)]

PatternColor(r, c, k) == Palette[((r + 2 * c + k) % 3) + 1]
PatternRow(r, len, k) == [c \in 1..len |-> PatternColor(r, c, k)]

(***************************************************************************)
(* copy.deepcopy of a list of lists of str: a new outer list and a new row *)
(* for every distinct row object (the memo keeps rows that were one object *)
(* one object in the copy); str items are immutable and shared.            *)
(***************************************************************************)
FirstOcc(s, i) == CHOOSE j \in 1..i : s[j] = s[i] /\ \A k \in 1..(j - 1) : s[k] # s[i]
Rank(s, i) == Cardinality({s[k] : k \in 1..FirstOcc(s, i)})

shallow_copy(ro, lo, a) ==
    [row_objs |-> ro, list_objs |-> Append(lo, lo[a]), addr |-> Len(lo) + 1]

deepcopy(ro, lo, a) ==
    LET src == lo[a]
        nNew == Cardinality({src[i] : i \in DOMAIN src})
        first(k) == CHOOSE i \in DOMAIN src : FirstOcc(src, i) = i /\ Rank(src, i) = k
        newRows == [k \in 1..nNew |-> ro[src[first(k)]]]
        newList == [i \in DOMAIN src |-> Len(ro) + Rank(src, i)]
    IN  [row_objs |-> ro \o newRows,
         list_objs |-> Append(lo, newList),
         addr |-> Len(lo) + 1]

\* [[well_fill for i in range(n_cols)] for j in range(n_rows)]
broadcast(ro, lo, s, n_rows, n_cols) ==
    [row_objs |-> ro \o [j \in 1..n_rows |-> [i \in 1..n_cols |-> s]],
     list_objs |-> Append(lo, [j \in 1..n_rows |-> Len(ro) + j]),
     addr |-> Len(lo) + 1]

(***************************************************************************)
(* chr and str, as far as the labels use them.                             *)
(***************************************************************************)
AsciiFrom65 == <<"A", "B", "C", "D", "E", "F", "G", "H", "I", "J", "K", "L", "M",
                 "N", "O", "P", "Q", "R", "S", "T", "U", "V", "W", "X", "Y", "Z",
                 "[">>

chr(n) == AsciiFrom65[n - 64]

Digits == <<"0", "1", "2", "3", "4", "5", "6", "7", "8", "9">>

RECURSIVE str(_)
str(n) == IF n < 10 THEN Digits[n + 1] ELSE str(n \div 10) \o Digits[(n % 10) + 1]

(***************************************************************************)
(* PaperPlate.__init__, lines 65-95: the fields, the fill matrix, the      *)
(* origin of the well grid and the empty drawing.                          *)
(***************************************************************************)
NoObject ==
    [n_rows |-> 0, n_cols |-> 0, plate_length |-> 0, plate_width |-> 0,
     barrier_thickness |-> 0, well_diameter |-> 0, well_separation |-> 0,
     margin |-> 0, edge_corner_radius |-> 0, edge_thickness |-> 0,
     edges_distance |-> 0, label_font_size |-> 0, fill_matrix |-> 0,
     top_y |-> 0, left_x |-> 0,
     svg |-> [size |-> <<0, 0>>, viewbox |-> <<0, 0>>, elements |-> <<>>]]

fill_copy(ro, lo, a) ==
    IF a.well_fill.kind = "str"
    THEN broadcast(ro, lo, a.well_fill.str, a.n_rows, a.n_cols)
    ELSE deepcopy(ro, lo, a.well_fill.addr)

origin(a) ==
    [top_y |-> a.margin + a.top_padding, left_x |-> a.margin + a.left_padding]

init_fields(a, fm) ==
    LET viewport_size == <<a.plate_length + 2 * a.margin, a.plate_width + 2 * a.margin>>
    IN  [n_rows |-> a.n_rows, n_cols |-> a.n_cols,
         plate_length |-> a.plate_length, plate_width |-> a.plate_width,
         barrier_thickness |-> a.barrier_thickness,
         well_diameter |-> a.well_diameter,
         well_separation |-> a.well_separation,
         margin |-> a.margin,
         edge_corner_radius |-> a.edge_corner_radius,
         edge_thickness |-> a.edge_thickness,
         edges_distance |-> a.edges_distance,
         label_font_size |-> a.label_font_size,
         fill_matrix |-> fm,
         top_y |-> origin(a).top_y,
         left_x |-> origin(a).left_x,
         svg |-> [size |-> viewport_size, viewbox |-> viewport_size, elements |-> <<>>]]

svg_add(s, elems) == [s EXCEPT !.svg.elements = @ \o elems]

(***************************************************************************)
(* _draw_edges: the outer rectangle, then the inner one.                   *)
(***************************************************************************)
outer_edge(s) ==
    [kind |-> "rect", insert |-> <<s.margin, s.margin>>,
     size |-> <<s.plate_length, s.plate_width>>,
     rx |-> s.edge_corner_radius, stroke_width |-> s.edge_thickness,
     stroke |-> "black", fill |-> "white"]

inner_edge(s) ==
    LET insert_coord == s.margin + s.edges_distance
        inner_size == <<s.plate_length - 2 * s.edges_distance,
                        s.plate_width - 2 * s.edges_distance>>
    IN  [kind |-> "rect", insert |-> <<insert_coord, insert_coord>>,
         size |-> inner_size,
         rx |-> s.edge_corner_radius - s.edges_distance,
         stroke_width |-> s.edge_thickness,
         stroke |-> "black", fill |-> "white"]

draw_edges(s) == svg_add(s, <<outer_edge(s), inner_edge(s)>>)

(***************************************************************************)
(* _draw_wells: one circle per (row, col), row-major.  The read of         *)
(* self._fill_matrix[row][col] raises IndexError at the first cell the     *)
(* matrix does not have; the circles of the cells before it are already    *)
(* in the drawing.                                                         *)
(***************************************************************************)
well_center_transposed(s, row, col) ==
    <<s.left_x + row * s.well_separation, s.top_y + col * s.well_separation>>

well_center(s, row, col) ==
    <<s.left_x + col * s.well_separation, s.top_y + row * s.well_separation>>

has_cell(m, row, col) == row + 1 <= Len(m) /\ col + 1 <= Len(m[row + 1])

well_circle(s, m, row, col) ==
    [kind |-> "circle", center |-> well_center(s, row, col),
     r |-> s.well_diameter \div 2,
     stroke_width |-> s.barrier_thickness,
     stroke |-> "black",
     fill |-> m[row + 1][col + 1]]

draw_wells(s, ro, lo) ==
    LET m == Matrix(ro, lo, s.fill_matrix)
        n == s.n_rows * s.n_cols
        row(k) == k \div s.n_cols
        col(k) == k % s.n_cols
        bad == {k \in 0..(n - 1) : ~has_cell(m, row(k), col(k))}
        drawn == IF bad = {} THEN n ELSE CHOOSE k \in bad : \A j \in bad : k <= j
    IN  [self |-> svg_add(s, [i \in 1..drawn |-> well_circle(s, m, row(i - 1), col(i - 1))]),
         exc |-> IF bad = {} THEN "none" ELSE "IndexError"]

(***************************************************************************)
(* _draw_labels: the row letters, then the column numbers.                 *)
(***************************************************************************)
col_label_text_zero_based(col) == str(col)

col_label_text(col) == str(col + 1)

row_label(s, row) ==
    [kind |-> "text", text |-> chr(row + 65),
     insert |-> <<s.left_x - (3 * s.well_separation) \div 4,
                  row * s.well_separation + s.top_y + s.label_font_size \div 8>>,
     text_anchor |-> "middle", font_size |-> s.label_font_size,
     alignment_baseline |-> "middle", font_family |-> "Futura"]

col_label(s, col) ==
    [kind |-> "text", text |-> col_label_text(col),
     insert |-> <<col * s.well_separation + s.left_x,
                  s.top_y - (11 * s.well_separation) \div 20 - s.label_font_size \div 8>>,
     text_anchor |-> "middle", font_size |-> s.label_font_size,
     alignment_baseline |-> "middle", font_family |-> "Futura"]

draw_labels(s) ==
    svg_add(s, [i \in 1..s.n_rows |-> row_label(s, i - 1)]
               \o [i \in 1..s.n_cols |-> col_label(s, i - 1)])

(***************************************************************************)
(* The presets: Plate96.__init__ and Plate384.__init__ bind the constants  *)
(* and forward the caller's six arguments.                                 *)
(***************************************************************************)
Plate96_args_padding_swapped(a) ==
    [n_rows |-> 8, n_cols |-> 12,
     plate_length |-> 127760, plate_width |-> 85480,
     barrier_thickness |-> a.barrier_tickness,
     well_diameter |-> a.well_diameter,
     well_separation |-> 9000,
     margin |-> a.margin,
     left_padding |-> 11240, top_padding |-> 14380,
     edge_corner_radius |-> 3180,
     edge_thickness |-> a.edge_thickness,
     edges_distance |-> a.edge_distance,
     label_font_size |-> 4000,
     well_fill |-> a.well_fill]

Plate96_args(a) ==
    [n_rows |-> 8, n_cols |-> 12,
     plate_length |-> 127760, plate_width |-> 85480,
     barrier_thickness |-> a.barrier_tickness,
     well_diameter |-> a.well_diameter,
     well_separation |-> 9000,
     margin |-> a.margin,
     left_padding |-> 14380, top_padding |-> 11240,
     edge_corner_radius |-> 3180,
     edge_thickness |-> a.edge_thickness,
     edges_distance |-> a.edge_distance,
     label_font_size |-> 4000,
     well_fill |-> a.well_fill]

Plate384_args(a) ==
    [n_rows |-> 16, n_cols |-> 24,
     plate_length |-> 127760, plate_width |-> 85480,
     barrier_thickness |-> a.barrier_tickness,
     well_diameter |-> a.well_diameter,
     well_separation |-> 4500,
     margin |-> a.margin,
     left_padding |-> 12700, top_padding |-> 8990,
     edge_corner_radius |-> 3180,
     edge_thickness |-> a.edge_thickness,
     edges_distance |-> a.edge_distance,
     label_font_size |-> 3000,
     well_fill |-> a.well_fill]

\* The order of the three draw calls at the end of __init__.
draw_calls_wells_first == <<"_draw_wells", "_draw_edges", "_draw_labels">>

draw_calls == <<"_draw_edges", "_draw_wells", "_draw_labels">>

(***************************************************************************)
(* The constructor calls the model makes.                                  *)
(***************************************************************************)
Geometries ==
    { [plate_length |-> 127760, plate_width |-> 85480, barrier_thickness |-> 500,
       well_diameter |-> 6000, well_separation |-> 9000, margin |-> 5000,
       left_padding |-> 14380, top_padding |-> 11240, edge_corner_radius |-> 3180,
       edge_thickness |-> 750, edges_distance |-> 1000, label_font_size |-> 4000],
      [plate_length |-> 60000, plate_width |-> 45000, barrier_thickness |-> 300,
       well_diameter |-> 3000, well_separation |-> 4500, margin |-> 2000,
       left_padding |-> 6000, top_padding |-> 4000, edge_corner_radius |-> 2000,
       edge_thickness |-> 400, edges_distance |-> 1500, label_font_size |-> 3000],
      [plate_length |-> 40000, plate_width |-> 30000, barrier_thickness |-> 0,
       well_diameter |-> 0, well_separation |-> 0, margin |-> 0,
       left_padding |-> 7000, top_padding |-> 3000, edge_corner_radius |-> 0,
       edge_thickness |-> 200, edges_distance |-> 0, label_font_size |-> 8000] }

GenericArgs(g, n_rows, n_cols, wf) ==
    [n_rows |-> n_rows, n_cols |-> n_cols,
     plate_length |-> g.plate_length, plate_width |-> g.plate_width,
     barrier_thickness |-> g.barrier_thickness,
     well_diameter |-> g.well_diameter,
     well_separation |-> g.well_separation,
     margin |-> g.margin,
     left_padding |-> g.left_padding, top_padding |-> g.top_padding,
     edge_corner_radius |-> g.edge_corner_radius,
     edge_thickness |-> g.edge_thickness,
     edges_distance |-> g.edges_distance,
     label_font_size |-> g.label_font_size,
     well_fill |-> wf]

PresetArgs(wf) ==
    { [barrier_tickness |-> 500, well_diameter |-> 6000, margin |-> 5000,
       edge_thickness |-> 750, edge_distance |-> 1000, well_fill |-> wf],
      [barrier_tickness |-> 200, well_diameter |-> 3000, margin |-> 10000,
       edge_thickness |-> 300, edge_distance |-> 2000, well_fill |-> wf] }

\* The caller's matrices: mr rows of mc colours, one row (ragRow, if not 0) of
\* another length; with aliased, every row is the same list object ([row] * mr).
RowLens(mr, mc, ragRow, ragLen) == [r \in 1..mr |-> IF r = ragRow THEN ragLen ELSE mc]

MatrixShapes(n_rows, n_cols) ==
    { RowLens(mr, mc, ragRow, ragLen) :
        mr \in 0..(n_rows + 1), mc \in 0..(n_cols + 1),
        ragRow \in 0..(n_rows + 1), ragLen \in 0..(n_cols + 1) }

\* The heap holding one caller matrix of the given row lengths and pattern.
CallerHeap(lens, k, aliased) ==
    IF aliased
    THEN [row_objs |-> <<PatternRow(1, lens[1], k)>>,
          list_objs |-> <<[r \in 1..Len(lens) |-> 1]>>]
    ELSE [row_objs |-> [r \in 1..Len(lens) |-> PatternRow(r, lens[r], k)],
          list_objs |-> <<[r \in 1..Len(lens) |-> r]>>]

EmptyHeap == [row_objs |-> <<>>, list_objs |-> <<>>]

NoFill == [kind |-> "none", str |-> "", matrix |-> <<>>]

NoLocals == [pdf_file_path |-> <<>>, file_dir |-> <<>>, file_name |-> <<>>,
             svg_path |-> <<>>, inkscape_path |-> <<>>, pdf_path |-> <<>>]

InitLayout(c, h) ==
    /\ pc = "call"
    /\ step = 0
    /\ call = c
    /\ row_objs = h.row_objs
    /\ list_objs = h.list_objs
    /\ self = NoObject
    /\ exc = "none"
    /\ fill_at_call = NoFill
    /\ nmut = 0

InitGeneric ==
    \E g \in Geometries, n_rows \in 1..MaxRows, n_cols \in 1..MaxCols :
        \/ \E s \in {"white", "red"} :
              InitLayout([cls |-> "PaperPlate",
                          args |-> GenericArgs(g, n_rows, n_cols, StrFill(s))],
                         EmptyHeap)
        \/ \E lens \in MatrixShapes(n_rows, n_cols), k \in 0..1 :
              InitLayout([cls |-> "PaperPlate",
                          args |-> GenericArgs(g, n_rows, n_cols, ListFill(1))],
                         CallerHeap(lens, k, FALSE))
        \/ \E mr \in 2..(n_rows + 1), mc \in 0..(n_cols + 1) :
              InitLayout([cls |-> "PaperPlate",
                          args |-> GenericArgs(g, n_rows, n_cols, ListFill(1))],
                         CallerHeap(RowLens(mr, mc, 0, 0), 0, TRUE))

InitPreset ==
    \/ \E cls \in {"Plate96", "Plate384"} : \E a \in PresetArgs(StrFill("white")) :
          InitLayout([cls |-> cls, args |-> a], EmptyHeap)
    \/ \E a \in PresetArgs(ListFill(1)) :
          InitLayout([cls |-> "Plate96", args |-> a],
                     CallerHeap(RowLens(8, 12, 0, 0), 0, FALSE))

ExportIdle ==
    /\ xpc = "idle"
    /\ loc = NoLocals
    /\ fs = [dirs |-> {}, files |-> {}, partial |-> {}, written |-> {}]
    /\ env = [on_path |-> FALSE, at_fallback |-> FALSE]
    /\ procs = <<>>
    /\ xexc = "none"

Init == (InitGeneric \/ InitPreset) /\ ExportIdle

(***************************************************************************)
(* The constructors.                                                       *)
(***************************************************************************)
PaperPlate_enter(a) ==
    LET fc == fill_copy(row_objs, list_objs, a)
    IN  /\ row_objs' = fc.row_objs
        /\ list_objs' = fc.list_objs
        /\ self' = init_fields(a, fc.addr)
        /\ fill_at_call' = FillValue(row_objs, list_objs, a.well_fill)
        /\ pc' = "draw"
        /\ step' = 1
        /\ UNCHANGED <<call, exc, nmut>>
        /\ UNCHANGED exportVars

PaperPlate_init ==
    /\ pc = "call"
    /\ call.cls = "PaperPlate"
    /\ PaperPlate_enter(call.args)

Plate96_init ==
    /\ pc = "call"
    /\ call.cls = "Plate96"
    /\ PaperPlate_enter(Plate96_args(call.args))

Plate384_init ==
    /\ pc = "call"
    /\ call.cls = "Plate384"
    /\ PaperPlate_enter(Plate384_args(call.args))

AfterDraw == IF step = Len(draw_calls) THEN "constructed" ELSE "draw"

call_draw_edges ==
    /\ pc = "draw"
    /\ draw_calls[step] = "_draw_edges"
    /\ self' = draw_edges(self)
    /\ pc' = AfterDraw
    /\ step' = step + 1
    /\ UNCHANGED <<call, row_objs, list_objs, exc, fill_at_call, nmut>>
    /\ UNCHANGED exportVars

call_draw_wells ==
    /\ pc = "draw"
    /\ draw_calls[step] = "_draw_wells"
    /\ LET r == draw_wells(self, row_objs, list_objs)
       IN  /\ self' = r.self
           /\ exc' = r.exc
           /\ pc' = IF r.exc = "none" THEN AfterDraw ELSE "raised"
    /\ step' = step + 1
    /\ UNCHANGED <<call, row_objs, list_objs, fill_at_call, nmut>>
    /\ UNCHANGED exportVars

call_draw_labels ==
    /\ pc = "draw"
    /\ draw_calls[step] = "_draw_labels"
    /\ self' = draw_labels(self)
    /\ pc' = AfterDraw
    /\ step' = step + 1
    /\ UNCHANGED <<call, row_objs, list_objs, exc, fill_at_call, nmut>>
    /\ UNCHANGED exportVars

(***************************************************************************)
(* The caller, once it holds the layout, changes the matrix it passed:     *)
(* well_fill[r][c] = colour, or del well_fill[-1].                         *)
(***************************************************************************)
CallerMutatesCell ==
    /\ pc = "constructed"
    /\ call.args.well_fill.kind = "list"
    /\ nmut < MaxMutations
    /\ \E r \in DOMAIN list_objs[call.args.well_fill.addr] :
         LET ra == list_objs[call.args.well_fill.addr][r]
         IN  \E c \in DOMAIN row_objs[ra] :
               /\ row_objs[ra][c] # MutationColor
               /\ row_objs' = [row_objs EXCEPT ![ra][c] = MutationColor]
    /\ nmut' = nmut + 1
    /\ UNCHANGED <<pc, step, call, list_objs, self, exc, fill_at_call>>
    /\ UNCHANGED exportVars

CallerDeletesRow ==
    /\ pc = "constructed"
    /\ call.args.well_fill.kind = "list"
    /\ nmut < MaxMutations
    /\ Len(list_objs[call.args.well_fill.addr]) > 0
    /\ list_objs' = [list_objs EXCEPT ![call.args.well_fill.addr] =
                        SubSeq(@, 1, Len(@) - 1)]
    /\ nmut' = nmut + 1
    /\ UNCHANGED <<pc, step, call, row_objs, self, exc, fill_at_call>>
    /\ UNCHANGED exportVars

Next ==
    \/ PaperPlate_init
    \/ Plate96_init
    \/ Plate384_init
    \/ call_draw_edges
    \/ call_draw_wells
    \/ call_draw_labels
    \/ CallerMutatesCell
    \/ CallerDeletesRow

Spec == Init /\ [][Next]_vars

(***************************************************************************)
(* Strings as sequences of characters, and the os.path functions (POSIX)   *)
(* that to_pdf_inkscape calls.                                             *)
(***************************************************************************)
Chars(s) == {s[i] : i \in DOMAIN s}

\* str.find and str.rfind of one character, 1-based; 0 when it is absent.
Find(s, ch) == IF ch \in Chars(s) THEN CHOOSE i \in DOMAIN s : s[i] = ch /\ \A j \in 1..(i - 1) : s[j] # ch ELSE 0
RFind(s, ch) == IF ch \in Chars(s) THEN CHOOSE i \in DOMAIN s : s[i] = ch /\ \A j \in (i + 1)..Len(s) : s[j] # ch ELSE 0

StartsWith(s, t) == Len(s) >= Len(t) /\ SubSeq(s, 1, Len(t)) = t

RECURSIVE Split(_, _)
Split(s, ch) ==
    IF Find(s, ch) = 0 THEN <<s>>
    ELSE <<SubSeq(s, 1, Find(s, ch) - 1)>> \o Split(SubSeq(s, Find(s, ch) + 1, Len(s)), ch)

RECURSIVE Join(_, _)
Join(comps, ch) ==
    IF comps = <<>> THEN <<>>
    ELSE IF Len(comps) = 1 THEN comps[1]
    ELSE comps[1] \o <<ch>> \o Join(Tail(comps), ch)

RECURSIVE RStrip(_, _)
RStrip(s, ch) == IF s # <<>> /\ s[Len(s)] = ch THEN RStrip(SubSeq(s, 1, Len(s) - 1), ch) ELSE s

getcwd == <<"/", "w">>

isabs(p) == StartsWith(p, <<"/">>)

\* os.path.join of two parts.
join(a, b) ==
    IF isabs(b) THEN b
    ELSE IF a = <<>> \/ a[Len(a)] = "/" THEN a \o b
    ELSE a \o <<"/">> \o b

\* The loop of normpath over the components: "" and "." are dropped, ".."
\* removes the component before it where there is one to remove.
RECURSIVE norm_comps(_, _, _)
norm_comps(comps, new_comps, initial_slashes) ==
    IF comps = <<>> THEN new_comps
    ELSE LET comp == comps[1]
             n == Len(new_comps)
         IN  IF comp = <<>> \/ comp = <<".">>
             THEN norm_comps(Tail(comps), new_comps, initial_slashes)
             ELSE IF \/ comp # <<".", ".">>
                     \/ (initial_slashes = 0 /\ n = 0)
                     \/ (n > 0 /\ new_comps[n] = <<".", ".">>)
             THEN norm_comps(Tail(comps), Append(new_comps, comp), initial_slashes)
             ELSE IF n > 0
             THEN norm_comps(Tail(comps), SubSeq(new_comps, 1, n - 1), initial_slashes)
             ELSE norm_comps(Tail(comps), new_comps, initial_slashes)

normpath(p) ==
    IF p = <<>> THEN <<".">>
    ELSE LET initial_slashes ==
                 IF ~isabs(p) THEN 0
                 ELSE IF StartsWith(p, <<"/", "/">>) /\ ~StartsWith(p, <<"/", "/", "/">>)
                 THEN 2 ELSE 1
             body == Join(norm_comps(Split(p, "/"), <<>>, initial_slashes), "/")
             path == [i \in 1..initial_slashes |-> "/"] \o body
         IN  IF path = <<>> THEN <<".">> ELSE path

abspath(p) == normpath(IF isabs(p) THEN p ELSE join(getcwd, p))

dirname(p) ==
    LET head == SubSeq(p, 1, RFind(p, "/"))
    IN  IF head # <<>> /\ Chars(head) # {"/"} THEN RStrip(head, "/") ELSE head

basename(p) == SubSeq(p, RFind(p, "/") + 1, Len(p))

\* os.path.splitext: the split is at the last dot of the last component,
\* unless only dots come before it there.
splitext(p) ==
    LET sepIndex == RFind(p, "/")
        dotIndex == RFind(p, ".")
    IN  IF dotIndex > sepIndex /\ \E k \in (sepIndex + 1)..(dotIndex - 1) : p[k] # "."
        THEN <<SubSeq(p, 1, dotIndex - 1), SubSeq(p, dotIndex, Len(p))>>
        ELSE <<p, <<>>>>

\* The directory d and the directories above it.
RECURSIVE Ancestors(_)
Ancestors(d) == IF dirname(d) = d THEN {d} ELSE {d} \cup Ancestors(dirname(d))

(***************************************************************************)
(* to_pdf_inkscape, step by step.                                          *)
(***************************************************************************)
inkscape_fallback == <<"/", "A", "p", "p", "l", "i", "c", "a", "t", "i", "o", "n", "s", "/", "I", "n", "k", "s", "c", "a", "p", "e", ".", "a", "p", "p", "/", "C", "o", "n", "t", "e", "n", "t", "s", "/", "R", "e", "s", "o", "u", "r", "c", "e", "s", "/", "b", "i", "n", "/", "i", "n", "k", "s", "c", "a", "p", "e">>

find_inkscape(on_path) ==
    IF ~on_path THEN inkscape_fallback ELSE <<"i", "n", "k", "s", "c", "a", "p", "e">>

svg_path_of(file_dir, pdf_file_path) ==
    LET file_name == splitext(basename(pdf_file_path))[1]
    IN  join(file_dir, file_name \o <<".", "s", "v", "g">>)

command_line(inkscape_path, svg_path, pdf_path) ==
    inkscape_path \o <<" ", "-", "f", " ">> \o svg_path \o <<" ", "-", "A", " ">> \o pdf_path

\* The words sh -c makes of a command line that holds no quotes: it splits at
\* the blanks.
ShellWords(cmd) == SelectSeq(Split(cmd, " "), LAMBDA w : w # <<>>)

\* The value of a command-line option: the word after the option.
OptionValue(words, opt) ==
    IF \E i \in 1..(Len(words) - 1) : words[i] = opt
    THEN words[(CHOOSE i \in 1..(Len(words) - 1) :
                   words[i] = opt /\ \A j \in 1..(i - 1) : words[j] # opt) + 1]
    ELSE <<>>

\* Whether the shell finds the program named by the first word.
ProgramFound(words) ==
    \/ words[1] = <<"i", "n", "k", "s", "c", "a", "p", "e">> /\ env.on_path
    \/ words[1] = inkscape_fallback /\ env.at_fallback

\* The destinations the model exports to, and a file that is in the way of
\* one of them.
PdfFilePaths ==
    { <<"p", ".", "p", "d", "f">>, 
      <<"o", "/", "p", ".", "p", "d", "f">>, 
      <<"/", "t", "/", "o", "/", "p", ".", "p", "d", "f">>, 
      <<"a", " ", "b", ".", "p", "d", "f">>, 
      <<"f", "/", "p", ".", "p", "d", "f">>, 
      <<"o", "/", ".", ".", "/", "q", ".", "r", ".", "p", "d", "f">>, 
      <<"p">> }

ExistingFile == <<"/", "w", "/", "f">>

to_pdf_inkscape_call ==
    /\ pc = "constructed"
    /\ xpc = "idle"
    /\ \E p \in PdfFilePaths : loc' = [NoLocals EXCEPT !.pdf_file_path = p]
    /\ xpc' = "makedirs"
    /\ UNCHANGED <<fs, env, procs, xexc>>
    /\ UNCHANGED layoutVars

\* file_dir = dirname(abspath(pdf_file_path)); os.makedirs(file_dir, exist_ok=True)
to_pdf_makedirs ==
    /\ xpc = "makedirs"
    /\ LET file_dir == dirname(abspath(loc.pdf_file_path))
       IN  /\ loc' = [loc EXCEPT !.file_dir = file_dir]
           /\ IF Ancestors(file_dir) \cap fs.files # {}
              THEN /\ xpc' = "raised"
                   /\ xexc' = "OSError"
                   /\ fs' = fs
              ELSE /\ xpc' = "saveas"
                   /\ xexc' = xexc
                   /\ fs' = [fs EXCEPT !.dirs = @ \cup Ancestors(file_dir)]
    /\ UNCHANGED <<env, procs>>
    /\ UNCHANGED layoutVars

\* self._svg.saveas(svg_path), the write succeeding.
to_pdf_saveas ==
    /\ xpc = "saveas"
    /\ LET svg_path == svg_path_of(loc.file_dir, loc.pdf_file_path)
       IN  /\ loc' = [loc EXCEPT !.file_name = splitext(basename(loc.pdf_file_path))[1],
                                 !.svg_path = svg_path]
           /\ IF svg_path \in fs.dirs \/ dirname(svg_path) \notin fs.dirs
              THEN /\ xpc' = "raised"
                   /\ xexc' = "OSError"
                   /\ fs' = fs
              ELSE /\ xpc' = "which"
                   /\ xexc' = xexc
                   /\ fs' = [fs EXCEPT !.files = @ \cup {svg_path},
                                       !.partial = @ \ {svg_path},
                                       !.written = @ \cup {svg_path}]
    /\ UNCHANGED <<env, procs>>
    /\ UNCHANGED layoutVars

\* self._svg.saveas(svg_path), the write failing after the file was opened
\* (a full disk): the exception propagates and the file stays, incomplete.
to_pdf_saveas_io_error ==
    /\ xpc = "saveas"
    /\ LET svg_path == svg_path_of(loc.file_dir, loc.pdf_file_path)
       IN  /\ svg_path \notin fs.dirs
           /\ dirname(svg_path) \in fs.dirs
           /\ loc' = [loc EXCEPT !.file_name = splitext(basename(loc.pdf_file_path))[1],
                                 !.svg_path = svg_path]
           /\ fs' = [fs EXCEPT !.files = @ \cup {svg_path},
                               !.partial = @ \cup {svg_path},
                               !.written = @ \cup {svg_path}]
    /\ xpc' = "raised"
    /\ xexc' = "OSError"
    /\ UNCHANGED <<env, procs>>
    /\ UNCHANGED layoutVars

\* shutil.which('inkscape'), and pdf_path = abspath(pdf_file_path)
to_pdf_find_inkscape ==
    /\ xpc = "which"
    /\ loc' = [loc EXCEPT !.inkscape_path = find_inkscape(env.on_path),
                          !.pdf_path = abspath(loc.pdf_file_path)]
    /\ xpc' = "system"
    /\ UNCHANGED <<fs, env, procs, xexc>>
    /\ UNCHANGED layoutVars

\* os.system(...): the shell runs the command and os.system returns its exit
\* status, which to_pdf_inkscape drops; then the method returns.  The shell
\* exits 127 when it does not find the program.  The converter reads the file
\* its -f option names and writes the file its -A option names: it exits 0
\* with the document written, or non-zero, with nothing or an incomplete
\* document written.
to_pdf_system ==
    /\ xpc = "system"
    /\ LET words == ShellWords(command_line(loc.inkscape_path, loc.svg_path, loc.pdf_path))
           input == OptionValue(words, <<"-", "f">>)
           output == OptionValue(words, <<"-", "A">>)
           readable == input \in fs.files /\ input \notin fs.partial
           writable == output # <<>> /\ output \notin fs.dirs /\ dirname(output) \in fs.dirs
       IN  \/ /\ ~ProgramFound(words)
              /\ procs' = Append(procs, [words |-> words, ran |-> FALSE, status |-> 127])
              /\ fs' = fs
           \/ /\ ProgramFound(words)
              /\ readable /\ writable
              /\ procs' = Append(procs, [words |-> words, ran |-> TRUE, status |-> 0])
              /\ fs' = [fs EXCEPT !.files = @ \cup {output},
                                  !.partial = @ \ {output},
                                  !.written = @ \cup {output}]
           \/ /\ ProgramFound(words)
              /\ procs' = Append(procs, [words |-> words, ran |-> TRUE, status |-> 1])
              /\ fs' = fs
           \/ /\ ProgramFound(words)
              /\ readable /\ writable
              /\ procs' = Append(procs, [words |-> words, ran |-> TRUE, status |-> 1])
              /\ fs' = [fs EXCEPT !.files = @ \cup {output},
                                  !.partial = @ \cup {output},
                                  !.written = @ \cup {output}]
    /\ xpc' = "returned"
    /\ UNCHANGED <<loc, env, xexc>>
    /\ UNCHANGED layoutVars

\* A constructed plate: what __init__ leaves.
ExportInitLayout(c) ==
    LET a == IF c.cls = "Plate96" THEN Plate96_args(c.args) ELSE Plate384_args(c.args)
        fc == fill_copy(<<>>, <<>>, a)
        drawn == draw_wells(draw_edges(init_fields(a, fc.addr)), fc.row_objs, fc.list_objs)
    IN  /\ pc = "constructed"
        /\ step = Len(draw_calls) + 1
        /\ call = c
        /\ row_objs = fc.row_objs
        /\ list_objs = fc.list_objs
        /\ self = draw_labels(drawn.self)
        /\ exc = "none"
        /\ fill_at_call = FillValue(<<>>, <<>>, a.well_fill)
        /\ nmut = 0

ExportInit ==
    /\ \E cls \in {"Plate96", "Plate384"} :
         ExportInitLayout([cls |-> cls,
                           args |-> [barrier_tickness |-> 500, well_diameter |-> 6000,
                                     margin |-> 5000, edge_thickness |-> 750,
                                     edge_distance |-> 1000,
                                     well_fill |-> StrFill("white")]])
    /\ xpc = "idle"
    /\ loc = NoLocals
    /\ fs = [dirs |-> {<<"/">>, getcwd}, files |-> {ExistingFile},
             partial |-> {}, written |-> {}]
    /\ env \in [on_path : BOOLEAN, at_fallback : BOOLEAN]
    /\ procs = <<>>
    /\ xexc = "none"

ExportNext ==
    \/ to_pdf_inkscape_call
    \/ to_pdf_makedirs
    \/ to_pdf_saveas
    \/ to_pdf_saveas_io_error
    \/ to_pdf_find_inkscape
    \/ to_pdf_system

ExportSpec == ExportInit /\ [][ExportNext]_vars

(***************************************************************************)
(* What the properties below speak of.                                     *)
(***************************************************************************)
\* The arguments PaperPlate.__init__ received.
LayoutArgs ==
    CASE call.cls = "PaperPlate" -> call.args
      [] call.cls = "Plate96" -> Plate96_args(call.args)
      [] call.cls = "Plate384" -> Plate384_args(call.args)

IsRect(e) == e.kind = "rect"
IsCircle(e) == e.kind = "circle"
IsText(e) == e.kind = "text"

Elements == self.svg.elements
Rects == SelectSeq(Elements, IsRect)
Circles == SelectSeq(Elements, IsCircle)
Texts == SelectSeq(Elements, IsText)

LeftX == LayoutArgs.margin + LayoutArgs.left_padding
TopY == LayoutArgs.margin + LayoutArgs.top_padding

GridCenter(r, c) ==
    <<LeftX + c * LayoutArgs.well_separation, TopY + r * LayoutArgs.well_separation>>

GridCells == (0..(LayoutArgs.n_rows - 1)) \X (0..(LayoutArgs.n_cols - 1))

Constructed == pc = "constructed"

\* Exactly one circle of cs is centered at each grid point.
OnePerGridPoint(cs) ==
    \A rc \in GridCells :
        Cardinality({i \in DOMAIN cs : cs[i].center = GridCenter(rc[1], rc[2])}) = 1

\* Every circle of cs is centered at a grid point.
NoneOffGrid(cs) ==
    \A i \in DOMAIN cs : \E rc \in GridCells : cs[i].center = GridCenter(rc[1], rc[2])

FillMismatch ==
    /\ fill_at_call.kind = "list"
    /\ \/ Len(fill_at_call.matrix) # LayoutArgs.n_rows
       \/ \E r \in DOMAIN fill_at_call.matrix :
            Len(fill_at_call.matrix[r]) # LayoutArgs.n_cols

\* C2: a construction with a wellFill matrix that is not rows x cols fails
\* with InvalidLayoutError, and no primitive has been added to the drawing.
C2_MismatchFailsBeforeDrawing ==
    FillMismatch =>
        /\ Elements = <<>>
        /\ pc # "constructed"
        /\ pc = "raised" => exc = "InvalidLayoutError"

ClassOf(e) == CASE e.kind = "rect" -> 1 [] e.kind = "circle" -> 2 [] e.kind = "text" -> 3

\* C3: in the drawing, at every moment, the edge rectangles (outer, then
\* inner) come before every circle and every circle before every label; a
\* constructed plate has both rectangles first.
C3_EdgesWellsLabelsOrder ==
    /\ \A i, j \in DOMAIN Elements : i < j => ClassOf(Elements[i]) <= ClassOf(Elements[j])
    /\ Len(Rects) >= 1 =>
         /\ Rects[1].insert = <<LayoutArgs.margin, LayoutArgs.margin>>
         /\ Rects[1].size = <<LayoutArgs.plate_length, LayoutArgs.plate_width>>
    /\ Len(Rects) >= 2 =>
         /\ Rects[2].insert = <<LayoutArgs.margin + LayoutArgs.edges_distance,
                                LayoutArgs.margin + LayoutArgs.edges_distance>>
         /\ Rects[2].size = <<LayoutArgs.plate_length - 2 * LayoutArgs.edges_distance,
                              LayoutArgs.plate_width - 2 * LayoutArgs.edges_distance>>
    /\ (Len(Circles) > 0 \/ Len(Texts) > 0 \/ Constructed) => Len(Rects) = 2
    /\ (Len(Texts) > 0 \/ Constructed) =>
         Len(Circles) = LayoutArgs.n_rows * LayoutArgs.n_cols

C3_Witness ==
    /\ Constructed
    /\ Len(Rects) = 2
    /\ Len(Circles) >= 2
    /\ Len(Texts) >= 2
    /\ LayoutArgs.edges_distance # 0

\* The matrix the caller passed, as it was when __init__ ran; for a str, the
\* matrix of n_rows rows of n_cols times that str.
FillAtConstruction ==
    IF fill_at_call.kind = "str"
    THEN [r \in 1..LayoutArgs.n_rows |-> [c \in 1..LayoutArgs.n_cols |-> fill_at_call.str]]
    ELSE fill_at_call.matrix

CallerFillNow == FillValue(row_objs, list_objs, call.args.well_fill)

\* C4: once __init__ has made the fill matrix, at every later moment and
\* whatever the caller does to its own matrix: the layout's fill matrix is the
\* caller's wellFill as it was at construction (a str broadcast to every
\* cell), the circle of well (r, c) has the fill wellFill[r][c] had then, and
\* the layout's lists are none of the caller's list objects.
C4_FillCopiedAtConstruction ==
    pc \in {"draw", "constructed", "raised"} =>
        /\ Matrix(row_objs, list_objs, self.fill_matrix) = FillAtConstruction
        /\ \A i \in DOMAIN Circles :
             Circles[i].fill = FillAtConstruction[((i - 1) \div LayoutArgs.n_cols) + 1]
                                                 [((i - 1) % LayoutArgs.n_cols) + 1]
        /\ call.args.well_fill.kind = "list" =>
             /\ self.fill_matrix # call.args.well_fill.addr
             /\ \A i \in DOMAIN list_objs[self.fill_matrix] :
                  \A j \in DOMAIN list_objs[call.args.well_fill.addr] :
                      list_objs[self.fill_matrix][i]
                          # list_objs[call.args.well_fill.addr][j]

C4_Witness ==
    /\ Constructed
    /\ nmut >= 1
    /\ fill_at_call.kind = "list"
    /\ Len(Circles) >= 2
    /\ \E r \in DOMAIN CallerFillNow.matrix : \E c \in DOMAIN CallerFillNow.matrix[r] :
         /\ r <= LayoutArgs.n_rows
         /\ c <= LayoutArgs.n_cols
         /\ CallerFillNow.matrix[r][c] = MutationColor
         /\ fill_at_call.matrix[r][c] # MutationColor

ForwardedUnchanged ==
    /\ self.barrier_thickness = call.args.barrier_tickness
    /\ self.well_diameter = call.args.well_diameter
    /\ self.margin = call.args.margin
    /\ self.edge_thickness = call.args.edge_thickness
    /\ self.edges_distance = call.args.edge_distance
    /\ Matrix(row_objs, list_objs, self.fill_matrix) = FillAtConstruction
    /\ fill_at_call.kind = call.args.well_fill.kind
    /\ fill_at_call.kind = "str" => fill_at_call.str = call.args.well_fill.str
    /\ \A i \in DOMAIN Circles :
         /\ Circles[i].stroke_width = call.args.barrier_tickness
         /\ 2 * Circles[i].r = call.args.well_diameter
    /\ \A i \in DOMAIN Rects : Rects[i].stroke_width = call.args.edge_thickness
    /\ Rects[1].insert = <<call.args.margin, call.args.margin>>
    /\ Rects[2].insert = <<call.args.margin + call.args.edge_distance,
                           call.args.margin + call.args.edge_distance>>

\* C5: a constructed Plate96 has 8 x 12 wells 9 mm apart, paddings 14.38 and
\* 11.24, a constructed Plate384 16 x 24 wells 4.5 mm apart, paddings 12.7 and
\* 8.99, both a 127.76 x 85.48 footprint; with margin 5 the wells A1 and H12 of
\* a Plate96 are centered at (19.38, 16.24) and (118.38, 79.24) and the well A1
\* of a Plate384 at (17.7, 13.99); the caller's barrier thickness, well
\* diameter, margin, edge thickness, edge distance and fill arrive unchanged.
C5_PresetsBindConstants ==
    /\ (Constructed /\ call.cls = "Plate96") =>
         /\ self.n_rows = 8 /\ self.n_cols = 12
         /\ self.plate_length = 127760 /\ self.plate_width = 85480
         /\ self.well_separation = 9000
         /\ self.left_x = call.args.margin + 14380
         /\ self.top_y = call.args.margin + 11240
         /\ Len(Circles) = 96
         /\ call.args.margin = 5000 =>
              /\ Circles[1].center = <<19380, 16240>>
              /\ Circles[96].center = <<118380, 79240>>
         /\ ForwardedUnchanged
    /\ (Constructed /\ call.cls = "Plate384") =>
         /\ self.n_rows = 16 /\ self.n_cols = 24
         /\ self.plate_length = 127760 /\ self.plate_width = 85480
         /\ self.well_separation = 4500
         /\ self.left_x = call.args.margin + 12700
         /\ self.top_y = call.args.margin + 8990
         /\ Len(Circles) = 384
         /\ call.args.margin = 5000 => Circles[1].center = <<17700, 13990>>
         /\ ForwardedUnchanged

C5_Witness ==
    /\ Constructed
    /\ call.cls = "Plate96"
    /\ call.args.margin = 5000
    /\ Len(Circles) = 96
    /\ Circles[96].center = <<118380, 79240>>

RowLetters == <<"A", "B", "C", "D", "E", "F", "G", "H", "I", "J", "K", "L", "M",
                "N", "O", "P", "Q", "R", "S", "T", "U", "V", "W", "X", "Y", "Z">>

ColumnNumbers == <<"1", "2", "3", "4", "5", "6", "7", "8", "9", "10", "11", "12",
                   "13", "14", "15", "16", "17", "18", "19", "20", "21", "22",
                   "23", "24", "25", "26">>

\* C6: a constructed plate has exactly rows + cols labels: first, for each row
\* r below 26, the letter chr(65 + r) at (leftX - 0.75*sep, topY + r*sep +
\* fontSize/8), then, for each column c, the number c + 1 in decimal at
\* (leftX + c*sep, topY - 0.55*sep - fontSize/8).
C6_LabelsTextAndPlace ==
    Constructed =>
        LET a == LayoutArgs
        IN  /\ Len(Texts) = a.n_rows + a.n_cols
            /\ \A r \in 0..(a.n_rows - 1) :
                 r < 26 =>
                   /\ Texts[r + 1].text = RowLetters[r + 1]
                   /\ 4 * Texts[r + 1].insert[1] = 4 * LeftX - 3 * a.well_separation
                   /\ 8 * Texts[r + 1].insert[2]
                          = 8 * (TopY + r * a.well_separation) + a.label_font_size
            /\ \A c \in 0..(a.n_cols - 1) :
                 /\ Texts[a.n_rows + c + 1].text = ColumnNumbers[c + 1]
                 /\ Texts[a.n_rows + c + 1].insert[1] = LeftX + c * a.well_separation
                 /\ 40 * Texts[a.n_rows + c + 1].insert[2]
                        = 40 * TopY - 22 * a.well_separation - 5 * a.label_font_size

C6_Witness ==
    /\ Constructed
    /\ LayoutArgs.n_rows >= 2
    /\ LayoutArgs.n_cols >= 10
    /\ Len(Texts) = LayoutArgs.n_rows + LayoutArgs.n_cols
    /\ Texts[1].text = "A"
    /\ Texts[LayoutArgs.n_rows + 10].text = "10"

(***************************************************************************)
(* The export.                                                             *)
(***************************************************************************)
\* For each destination the model exports to: its directory, the vector file
\* beside it, and the destination as an absolute path.
Destinations ==
    { [arg |-> <<"p", ".", "p", "d", "f">>,
       dir |-> <<"/", "w">>,
       svg |-> <<"/", "w", "/", "p", ".", "s", "v", "g">>,
       pdf |-> <<"/", "w", "/", "p", ".", "p", "d", "f">>],
      [arg |-> <<"o", "/", "p", ".", "p", "d", "f">>,
       dir |-> <<"/", "w", "/", "o">>,
       svg |-> <<"/", "w", "/", "o", "/", "p", ".", "s", "v", "g">>,
       pdf |-> <<"/", "w", "/", "o", "/", "p", ".", "p", "d", "f">>],
      [arg |-> <<"/", "t", "/", "o", "/", "p", ".", "p", "d", "f">>,
       dir |-> <<"/", "t", "/", "o">>,
       svg |-> <<"/", "t", "/", "o", "/", "p", ".", "s", "v", "g">>,
       pdf |-> <<"/", "t", "/", "o", "/", "p", ".", "p", "d", "f">>],
      [arg |-> <<"a", " ", "b", ".", "p", "d", "f">>,
       dir |-> <<"/", "w">>,
       svg |-> <<"/", "w", "/", "a", " ", "b", ".", "s", "v", "g">>,
       pdf |-> <<"/", "w", "/", "a", " ", "b", ".", "p", "d", "f">>],
      [arg |-> <<"f", "/", "p", ".", "p", "d", "f">>,
       dir |-> <<"/", "w", "/", "f">>,
       svg |-> <<"/", "w", "/", "f", "/", "p", ".", "s", "v", "g">>,
       pdf |-> <<"/", "w", "/", "f", "/", "p", ".", "p", "d", "f">>],
      [arg |-> <<"o", "/", ".", ".", "/", "q", ".", "r", ".", "p", "d", "f">>,
       dir |-> <<"/", "w">>,
       svg |-> <<"/", "w", "/", "q", ".", "r", ".", "s", "v", "g">>,
       pdf |-> <<"/", "w", "/", "q", ".", "r", ".", "p", "d", "f">>],
      [arg |-> <<"p">>,
       dir |-> <<"/", "w">>,
       svg |-> <<"/", "w", "/", "p", ".", "s", "v", "g">>,
       pdf |-> <<"/", "w", "/", "p">>] }

Destination == CHOOSE d \in Destinations : d.arg = loc.pdf_file_path

Exporting == xpc # "idle"

LastStatus == procs[Len(procs)].status

\* C7: when the conversion subprocess has exited non-zero, the export does not
\* return normally: it raises ConversionFailedError.
C7_NonZeroExitRaises ==
    (procs # <<>> /\ LastStatus # 0) =>
        /\ xpc # "returned"
        /\ xpc = "raised" => xexc = "ConversionFailedError"

\* C8: the tool is looked up on PATH first and at the fallback path second;
\* when it is at neither, the export raises ExternalToolUnavailableError and
\* runs no conversion subprocess.
C8_MissingToolRaises ==
    /\ xpc \in {"system", "returned"} =>
         loc.inkscape_path = IF env.on_path THEN <<"i", "n", "k", "s", "c", "a", "p", "e">>
                             ELSE inkscape_fallback
    /\ (~env.on_path /\ ~env.at_fallback) =>
         /\ procs = <<>>
         /\ xpc # "returned"
         /\ (xpc = "raised" /\ loc.svg_path \in fs.written /\ loc.svg_path \notin fs.partial)
                => xexc = "ExternalToolUnavailableError"

\* C9: in every export the directory of the destination exists before the
\* vector file is written, the vector file is written, complete, at the path
\* beside the destination before the converter is invoked, and the converter
\* is invoked with that file as its input and the absolute destination as its
\* output.
C9_DirectoryThenVectorFileThenConverter ==
    Exporting =>
        /\ fs.written # {} => Destination.dir \in fs.dirs
        /\ \A f \in fs.written : f \in {Destination.svg, Destination.pdf}
        /\ procs # <<>> =>
             /\ Destination.svg \in fs.written
             /\ Destination.svg \notin fs.partial \/ Destination.svg = Destination.pdf
        /\ \A i \in DOMAIN procs :
             /\ Len(procs[i].words) = 5
             /\ OptionValue(procs[i].words, <<"-", "f">>) = Destination.svg
             /\ OptionValue(procs[i].words, <<"-", "A">>) = Destination.pdf

ExportFailed ==
    \/ xpc = "raised"
    \/ xpc = "returned" /\ LastStatus # 0

\* C10: after an export that failed - an I/O error, the tool not found, the
\* converter exiting non-zero - no file that this export wrote is left.
C10_NothingLeftAfterFailure ==
    ExportFailed => fs.written = {}

====
